---- MODULE Spec2Model ----
(***************************************************************************)
(* gin-jwt-cognito: the Cognito JWT middleware of src/auth.go.             *)
(*                                                                         *)
(* Go strings on which the code computes (strings.Split, strings.Contains, *)
(* fmt.Sprintf, +) are sequences of atoms, an atom being a TLA+ string;    *)
(* base64url text is a sequence of 6-bit digits.  A JSON value decoded     *)
(* into interface{} is a record [t, s, n]: its dynamic type, its string    *)
(* and its number.  An error is its message; nil is the empty message.     *)
(***************************************************************************)
EXTENDS Integers, Sequences, FiniteSets, TLC

\* ------------------------------------------------------------- bounds
\* The clock runs over 1..MaxTime (Unix seconds, scaled down).
MaxTime == 2
\* Requests handled concurrently in SpecConc.
NReq == 2

\* ---------------------------------------------------------- constants
AuthorizationHeader == <<"Authentication">>
HEADER == <<"header">>
StatusUnauthorized == 401
Hour == 3600
DefaultRealm == <<"gin jwt">>
CognitoMarker == <<"cognito-idp">>
ContextKey == <<"JWT_TOKEN">>

NoErr == <<>>
AuthHeaderEmptyError == <<"auth header empty">>

\* ------------------------------------------------------ string helpers
\* strings.Contains on atom sequences.
Contains(s, sub) ==
  \E i \in 1..(Len(s) + 1) :
     /\ i + Len(sub) - 1 <= Len(s)
     /\ SubSeq(s, i, i + Len(sub) - 1) = sub

\* strings.Split(s, sep) for a one-atom separator: always at least one part.
RECURSIVE Split(_, _)
Split(s, sep) ==
  IF \E i \in 1..Len(s) : s[i] = sep
  THEN LET i == CHOOSE k \in 1..Len(s) :
                  s[k] = sep /\ \A j \in 1..(k - 1) : s[j] # sep
       IN  <<SubSeq(s, 1, i - 1)>> \o Split(SubSeq(s, i + 1, Len(s)), sep)
  ELSE <<s>>

\* ---------------------------------------------------------- JSON values
Absent == [t |-> "absent", s |-> <<>>, n |-> 0]
Str(x) == [t |-> "string", s |-> x, n |-> 0]
Num(k) == [t |-> "number", s |-> <<>>, n |-> k]

\* v, ok := m[key]
Has(v) == v.t # "absent"

\* ------------------------------------------------------------ base64url
\* A digit 0..63 is a character of the URL alphabet; BadDigit stands for any
\* character outside it ('=', '+', '!', ...).
BadDigit == 64

RECURSIVE DigitsValue(_)
DigitsValue(d) ==
  IF Len(d) = 0 THEN 0
  ELSE DigitsValue(SubSeq(d, 1, Len(d) - 1)) * 64 + d[Len(d)]

RECURSIVE Pow(_, _)
Pow(b, e) == IF e = 0 THEN 1 ELSE b * Pow(b, e - 1)

\* The k big-endian bytes of v.
RECURSIVE BytesOf(_, _)
BytesOf(v, k) ==
  IF k = 0 THEN <<>> ELSE BytesOf(v \div 256, k - 1) \o <<v % 256>>

\* base64.RawURLEncoding.DecodeString: no padding; a character outside the
\* alphabet or a length of 1 mod 4 is a CorruptInputError; trailing bits that
\* fill no byte are dropped.
RawURLDecode(d) ==
  IF (\E i \in 1..Len(d) : d[i] = BadDigit) \/ Len(d) % 4 = 1
  THEN [err |-> TRUE, bytes |-> <<>>]
  ELSE LET nbytes == (Len(d) * 6) \div 8
           spare  == Len(d) * 6 - nbytes * 8
       IN  [err |-> FALSE,
            bytes |-> BytesOf(DigitsValue(d) \div Pow(2, spare), nbytes)]

\* big.Int.SetBytes / binary.BigEndian: the bytes as an unsigned integer.
RECURSIVE BigEndian(_)
BigEndian(b) ==
  IF Len(b) = 0 THEN 0
  ELSE BigEndian(SubSeq(b, 1, Len(b) - 1)) * 256 + b[Len(b)]

\* The rsa.PublicKey of convertKey from the two decodings: E is left-padded
\* with zero bytes to 4 bytes and read as a big-endian uint32 (of its first 4
\* bytes), N is read whole.
PublicKey(de, dn) ==
  [E |-> BigEndian(SubSeq(IF Len(de.bytes) < 4
                          THEN [i \in 1..(4 - Len(de.bytes)) |-> 0] \o de.bytes
                          ELSE de.bytes, 1, 4)),
   N |-> BigEndian(dn.bytes)]

ConvertResult(de, dn) ==
  IF de.err \/ dn.err
  THEN [panic |-> TRUE, E |-> 0, N |-> 0]
  ELSE [panic |-> FALSE, E |-> PublicKey(de, dn).E, N |-> PublicKey(de, dn).N]

\* convertKey: panics on malformed base64url in E or in N.
convertKey(rawE, rawN) == ConvertResult(RawURLDecode(rawE), RawURLDecode(rawN))

\* ------------------------------------------------------------ key sets
\* JWKKey; the zero value is what a Go map yields for a missing key.
JWKKey(kid, e, n) ==
  [Alg |-> <<"RS256">>, E |-> e, Kid |-> kid, Kty |-> <<"RSA">>, N |-> n,
   Use |-> <<"sig">>]
ZeroJWKKey ==
  [Alg |-> <<>>, E |-> <<>>, Kid |-> <<>>, Kty |-> <<>>, N |-> <<>>, Use |-> <<>>]

\* A nil or empty map[string]JWKKey.
NilJWK == [k \in {} |-> ZeroJWKKey]

\* key := mw.JWK[kidStr]: the zero JWKKey when kidStr is no key of the map.
JWKLookup(jwk, kid) == IF kid \in DOMAIN jwk THEN jwk[kid] ELSE ZeroJWKKey

\* for _, jwk := range jwk.Keys { jwkMap[jwk.Kid] = jwk }: the last entry of a
\* key-identifier wins.
RECURSIVE BuildJWKMap(_)
BuildJWKMap(keys) ==
  IF Len(keys) = 0 THEN NilJWK
  ELSE LET rest == BuildJWKMap(SubSeq(keys, 1, Len(keys) - 1))
           k    == keys[Len(keys)]
       IN  [x \in DOMAIN rest \cup {k.Kid} |-> IF x = k.Kid THEN k ELSE rest[x]]

\* getJWK: one GET.  The transport's error and the JSON decoder's error are
\* returned; the response's status code is not looked at.  A JSON object
\* without "keys" decodes to an empty Keys slice.
getJWK(fetch) ==
  IF fetch.kind = "neterr"
  THEN [jwk |-> NilJWK, err |-> <<"Get: connection failure">>]
  ELSE IF fetch.body.form = "malformed"
       THEN [jwk |-> NilJWK, err |-> <<"invalid character in JSON body">>]
       ELSE [jwk |-> BuildJWKMap(fetch.body.keys), err |-> NoErr]

\* ------------------------------------------------------------ instance
\* The zero AuthMiddleware.  Unauthorized and TimeFunc name the function the
\* field holds: "nil"; "initDefault" (MiddlewareInit's c.JSON(code,
\* ErrorResponse)), "ctorDefault" (the constructor's c.JSON(code, error)),
\* "custom" (the user's); "time.Now", "fixed" (a clock of the user's).
ZeroMW ==
  [Unauthorized |-> "nil", Timeout |-> 0, TokenLookup |-> <<>>,
   TimeFunc |-> "nil", Realm |-> <<>>, VerifyIssuer |-> FALSE,
   Region |-> <<>>, UserPoolID |-> <<>>, Iss |-> <<>>, JWK |-> NilJWK]

\* CognitoJWTMiddleware: (nil, err) when getJWK fails, else the instance.
CognitoJWTMiddleware(iss, userPoolID, region, fetch) ==
  LET r == getJWK(fetch)
  IN  IF r.err # NoErr
      THEN [ok |-> FALSE, err |-> r.err, mw |-> ZeroMW]
      ELSE [ok |-> TRUE, err |-> NoErr,
            mw |-> [ZeroMW EXCEPT !.Timeout = Hour,
                                  !.Unauthorized = "ctorDefault",
                                  !.TokenLookup = HEADER \o <<":">> \o AuthorizationHeader,
                                  !.TimeFunc = "time.Now",
                                  !.JWK = r.jwk,
                                  !.Iss = iss,
                                  !.Region = region,
                                  !.UserPoolID = userPoolID]]

\* MiddlewareInit, one field at a time: an unset field is assigned its
\* default, a set field is only read.
Assigned(m) == [mw |-> m, wrote |-> TRUE]
Kept(m) == [mw |-> m, wrote |-> FALSE]

InitTokenLookup(m) ==
  IF m.TokenLookup = <<>>
  THEN Assigned([m EXCEPT !.TokenLookup = HEADER \o <<":">> \o AuthorizationHeader])
  ELSE Kept(m)
InitTimeout(m) ==
  IF m.Timeout = 0 THEN Assigned([m EXCEPT !.Timeout = Hour]) ELSE Kept(m)
InitTimeFunc(m) ==
  IF m.TimeFunc = "nil" THEN Assigned([m EXCEPT !.TimeFunc = "time.Now"]) ELSE Kept(m)
InitUnauthorized(m) ==
  IF m.Unauthorized = "nil"
  THEN Assigned([m EXCEPT !.Unauthorized = "initDefault"]) ELSE Kept(m)
InitRealm(m) ==
  IF m.Realm = <<>> THEN Assigned([m EXCEPT !.Realm = DefaultRealm]) ELSE Kept(m)

\* The fields in the order MiddlewareInit visits them.
InitOrder == <<"TokenLookup", "Timeout", "TimeFunc", "Unauthorized", "Realm">>
InitField(field, m) ==
  CASE field = "TokenLookup" -> InitTokenLookup(m)
    [] field = "Timeout" -> InitTimeout(m)
    [] field = "TimeFunc" -> InitTimeFunc(m)
    [] field = "Unauthorized" -> InitUnauthorized(m)
    [] field = "Realm" -> InitRealm(m)

RECURSIVE InitFrom(_, _)
InitFrom(k, r) ==
  IF k > Len(InitOrder) THEN r
  ELSE InitFrom(k + 1, [mw |-> InitField(InitOrder[k], r.mw).mw,
                        wrote |-> r.wrote \/ InitField(InitOrder[k], r.mw).wrote])

MiddlewareInit(m) == InitFrom(1, Kept(m))

\* ------------------------------------------------------ claim validator
\* validateClaimItem: the claim is a string equal to one of keyShouldBe.
validateClaimItem(key, keyShouldBe, claims) ==
  IF Has(claims[key]) /\ claims[key].t = "string"
     /\ \E i \in 1..Len(keyShouldBe) : claims[key].s = keyShouldBe[i]
  THEN NoErr
  ELSE <<key, " does not match any of valid values: ", "[">>
          \o keyShouldBe[1] \o <<"]">>

\* The closure validateTokenUse of validateAWSJwtClaims.
validateTokenUse(claims) ==
  IF Has(claims["token_use"]) /\ claims["token_use"].t = "string"
     /\ (claims["token_use"].s = <<"id">> \/ claims["token_use"].s = <<"access">>)
  THEN NoErr
  ELSE <<"token_use should be id or access">>

\* validateExpired; sysNow is time.Now().Unix() as this call reads it.
validateExpired(claims, sysNow) ==
  IF Has(claims["exp"])
  THEN IF claims["exp"].t = "number" /\ claims["exp"].n > sysNow
       THEN NoErr
       ELSE <<"cannot parse token exp">>
  ELSE <<"token is expired">>

IssShouldBe(region, userPoolID) ==
  <<"https://", "cognito-idp", ".">> \o region \o <<".amazonaws.com/">> \o userPoolID

\* validateAWSJwtClaims: iss, then token_use, then exp; the first failure is
\* returned.
validateAWSJwtClaims(claims, region, userPoolID, sysNow) ==
  LET e1 == validateClaimItem("iss", <<IssShouldBe(region, userPoolID)>>, claims)
      e2 == validateTokenUse(claims)
      e3 == validateExpired(claims, sysNow)
  IN  IF e1 # NoErr THEN e1 ELSE IF e2 # NoErr THEN e2 ELSE e3

\* ------------------------------------------------- the JWT library in parse
\* jwt2.GetSigningMethod: the family of a registered "alg", "nil" otherwise.
GetSigningMethod(alg) ==
  CASE alg \in {<<"RS256">>, <<"RS384">>, <<"RS512">>} -> "RSA"
    [] alg \in {<<"PS256">>, <<"PS384">>, <<"PS512">>} -> "RSAPSS"
    [] alg \in {<<"HS256">>, <<"HS384">>, <<"HS512">>} -> "HMAC"
    [] alg \in {<<"ES256">>, <<"ES384">>, <<"ES512">>} -> "ECDSA"
    [] alg = <<"none">> -> "none"
    [] OTHER -> "nil"

\* MapClaims.Valid at libNow (the library's own clock, jwt2.TimeFunc): a numeric
\* exp other than 0 must not lie before libNow, numeric iat and nbf other than 0
\* must not lie after it; a claim of another type passes.  The last failing
\* check names the error.
MapClaimsValid(claims, libNow) ==
  LET expBad == claims["exp"].t = "number" /\ claims["exp"].n # 0
                  /\ libNow > claims["exp"].n
      iatBad == claims["iat"].t = "number" /\ claims["iat"].n # 0
                  /\ libNow < claims["iat"].n
      nbfBad == claims["nbf"].t = "number" /\ claims["nbf"].n # 0
                  /\ libNow < claims["nbf"].n
  IN  IF nbfBad THEN <<"Token is not valid yet">>
      ELSE IF iatBad THEN <<"Token used before issued">>
      ELSE IF expBad THEN <<"Token is expired">>
      ELSE NoErr

\* The public key of a signer's key pair; nobody's signature is a forged one.
PubOf(signer) ==
  CASE signer = "kp1" -> [E |-> 65537, N |-> 13158471]
    [] signer = "kp2" -> [E |-> 65537, N |-> 13158473]
    [] OTHER -> [E |-> 0, N |-> 0]

\* SigningMethodRSA.Verify: the key must be an *rsa.PublicKey, and the
\* signature verifies under exactly the signer's public key.
Verify(keyType, key, signer) ==
  IF keyType # "rsa" THEN <<"key is of invalid type">>
  ELSE IF signer \in {"kp1", "kp2"} /\ key = PubOf(signer) THEN NoErr
  ELSE <<"crypto/rsa: verification error">>

KeyResult(panic, err, keyType, key, trace) ==
  [panic |-> panic, err |-> err, keyType |-> keyType, key |-> key, trace |-> trace]

RSAKey(pk) ==
  KeyResult(pk.panic, NoErr, "rsa", [E |-> pk.E, N |-> pk.N],
            <<"JWK[kid]", "convertKey">>)

\* The key function parse hands to jwt2.Parse: any RSA (PKCS1 v1.5) signing
\* method passes; the key-set entry of kid (the zero entry when the map has
\* none) goes to convertKey; without a string kid the key is "".
keyFunc(m, tok, method) ==
  IF method # "RSA"
  THEN KeyResult(FALSE, <<"unexpected signing method: ">> \o tok.alg.s, "none",
                 PubOf("nobody"), <<>>)
  ELSE IF Has(tok.kid) /\ tok.kid.t = "string"
       THEN RSAKey(convertKey(JWKLookup(m.JWK, tok.kid.s).E,
                              JWKLookup(m.JWK, tok.kid.s).N))
       ELSE KeyResult(FALSE, NoErr, "string", PubOf("nobody"), <<>>)

ParseResult(panic, err, trace, sigOk) ==
  [panic |-> panic, err |-> err, trace |-> trace, sigOk |-> sigOk]

\* The tail of jwt2.Parse, the key function having returned kf: the claims' own
\* validity and the signature are both checked; the signature's error is the
\* one reported when both fail.
VerifyWithKey(kf, cv, sv) ==
  IF kf.panic THEN ParseResult(TRUE, NoErr, kf.trace, FALSE)
  ELSE IF kf.err # NoErr THEN ParseResult(FALSE, kf.err, kf.trace, FALSE)
  ELSE ParseResult(FALSE, IF sv # NoErr THEN sv ELSE cv,
                   kf.trace \o <<"Verify">>, sv = NoErr)

ParseWithKey(kf, tok, libNow) ==
  VerifyWithKey(kf, MapClaimsValid(tok.claims, libNow),
                Verify(kf.keyType, kf.key, tok.signer))

\* jwt2.Parse(tokenStr, keyFunc): segments and header, the signing method of
\* "alg", the key function, then claims and signature.
jwtParse(m, tok, libNow) ==
  IF tok.kind # "jwt"
  THEN ParseResult(FALSE, <<"token contains an invalid number of segments">>,
                   <<>>, FALSE)
  ELSE IF tok.alg.t # "string"
  THEN ParseResult(FALSE, <<"signing method (alg) is unspecified.">>, <<>>, FALSE)
  ELSE IF GetSigningMethod(tok.alg.s) = "nil"
  THEN ParseResult(FALSE, <<"signing method (alg) is unavailable.">>, <<>>, FALSE)
  ELSE ParseWithKey(keyFunc(m, tok, GetSigningMethod(tok.alg.s)), tok, libNow)

\* ------------------------------------------------------- token verifier
\* parse handing every issuer to validateAWSJwtClaims.
parseClaimsAlways(m, tok, p, sysNow) ==
  IF p.panic \/ p.err # NoErr
  THEN ParseResult(p.panic, p.err, <<"parse">> \o p.trace, p.sigOk)
  ELSE IF ~Has(tok.claims["iss"])
  THEN ParseResult(FALSE, <<"token does not contain issuer">>,
                   <<"parse">> \o p.trace, TRUE)
  ELSE IF tok.claims["iss"].t # "string"
  THEN ParseResult(TRUE, NoErr, <<"parse">> \o p.trace, TRUE)
  ELSE ParseResult(FALSE,
                   validateAWSJwtClaims(tok.claims, m.Region, m.UserPoolID, sysNow),
                   <<"parse">> \o p.trace \o <<"validateAWSJwtClaims">>, TRUE)

\* The part of AuthMiddleware.parse after jwt2.Parse returned p.
\* iss.(string) panics on an issuer that is no string; an issuer that contains
\* "cognito-idp" is handed to validateAWSJwtClaims, any other is not.
parseClaims(m, tok, p, sysNow) ==
  IF p.panic \/ p.err # NoErr
  THEN ParseResult(p.panic, p.err, <<"parse">> \o p.trace, p.sigOk)
  ELSE IF ~Has(tok.claims["iss"])
  THEN ParseResult(FALSE, <<"token does not contain issuer">>,
                   <<"parse">> \o p.trace, TRUE)
  ELSE IF tok.claims["iss"].t # "string"
  THEN ParseResult(TRUE, NoErr, <<"parse">> \o p.trace, TRUE)
  ELSE IF Contains(tok.claims["iss"].s, CognitoMarker)
  THEN ParseResult(FALSE,
                   validateAWSJwtClaims(tok.claims, m.Region, m.UserPoolID, sysNow),
                   <<"parse">> \o p.trace \o <<"validateAWSJwtClaims">>, TRUE)
  ELSE ParseResult(FALSE, NoErr, <<"parse">> \o p.trace, TRUE)

\* AuthMiddleware.parse.  libNow and sysNow are the two readings of the system
\* clock that the library and validateExpired take; mw.TimeFunc is not
\* consulted.
parse(m, tok, libNow, sysNow) ==
  parseClaims(m, tok, jwtParse(m, tok, libNow), sysNow)

\* --------------------------------------------------------- request gate
EmptyString == [kind |-> "empty", alg |-> Absent, kid |-> Absent,
                claims |-> [iss |-> Absent, token_use |-> Absent, exp |-> Absent,
                            iat |-> Absent, nbf |-> Absent],
                signer |-> "nobody"]

\* c.Request.Header.Get(key): "" when the header is not there.
HeaderGet(header, key) == IF key \in DOMAIN header THEN header[key] ELSE EmptyString

\* jwtFromHeader without its check of the empty value.
jwtFromHeaderUnchecked(req, key) ==
  [tokenStr |-> HeaderGet(req.Header, key), err |-> NoErr]

jwtFromHeader(req, key) ==
  LET authHeader == HeaderGet(req.Header, key)
  IN  IF authHeader = EmptyString
      THEN [tokenStr |-> EmptyString, err |-> AuthHeaderEmptyError]
      ELSE [tokenStr |-> authHeader, err |-> NoErr]

\* The head of middlewareImpl: the switch on strings.Split(mw.TokenLookup, ":").
\* parts[1] of a lookup without ":" is an index out of range; a lookup that
\* does not start with "header" leaves tokenStr empty and err nil.
extractToken(m, req) ==
  LET parts == Split(m.TokenLookup, ":")
  IN  IF parts[1] = HEADER
      THEN IF Len(parts) < 2
           THEN [panic |-> TRUE, tokenStr |-> EmptyString, err |-> NoErr,
                 trace |-> <<>>]
           ELSE LET r == jwtFromHeader(req, parts[2])
                IN  [panic |-> FALSE, tokenStr |-> r.tokenStr, err |-> r.err,
                     trace |-> <<"jwtFromHeader">>]
      ELSE [panic |-> FALSE, tokenStr |-> EmptyString, err |-> NoErr,
            trace |-> <<>>]

\* unauthorized assigning the Realm on every call.
unauthorizedAlways(m, code, message) ==
  [mw |-> [m EXCEPT !.Realm = IF m.Realm = <<>> THEN DefaultRealm ELSE m.Realm],
   wrote |-> TRUE,
   panic |-> m.Unauthorized = "nil",
   challenge |-> <<"JWT realm=">> \o (IF m.Realm = <<>> THEN DefaultRealm ELSE m.Realm),
   code |-> code, message |-> message,
   status |-> IF m.Unauthorized \in {"initDefault", "ctorDefault"} THEN code ELSE 0,
   trace |-> <<"Header", "Abort", "Unauthorized">>]

\* AuthMiddleware.unauthorized: defaults an empty Realm (a write to the
\* instance), sets the WWW-Authenticate header, aborts and calls
\* mw.Unauthorized.
unauthorized(m, code, message) ==
  LET m2 == IF m.Realm = <<>> THEN [m EXCEPT !.Realm = DefaultRealm] ELSE m
  IN  [mw |-> m2, wrote |-> m.Realm = <<>>,
       panic |-> m.Unauthorized = "nil",
       challenge |-> <<"JWT realm=">> \o m2.Realm,
       code |-> code, message |-> message,
       status |-> IF m.Unauthorized \in {"initDefault", "ctorDefault"} THEN code ELSE 0,
       trace |-> <<"Header", "Abort", "Unauthorized">>]

Outcome(m, wrote, outcome, code, message, challenge, status, ctx, trace, sigOk) ==
  [mw |-> m, wrote |-> wrote, outcome |-> outcome, code |-> code,
   message |-> message, challenge |-> challenge, status |-> status,
   ctx |-> ctx, trace |-> trace, sigOk |-> sigOk]

Rejected(u, trace, sigOk) ==
  Outcome(u.mw, u.wrote, IF u.panic THEN "panic" ELSE "reject", u.code, u.message,
          u.challenge, u.status, {}, trace \o u.trace, sigOk)

Panicked(m, trace, sigOk) ==
  Outcome(m, FALSE, "panic", 0, NoErr, <<>>, 0, {}, trace, sigOk)

\* The tail of middlewareImpl without the return after unauthorized: it falls
\* through to c.Set and c.Next.
respondFallThrough(m, trace, p) ==
  IF p.panic THEN Panicked(m, trace \o p.trace, p.sigOk)
  ELSE IF p.err # NoErr
  THEN Rejected(unauthorized(m, StatusUnauthorized, p.err),
                trace \o p.trace \o <<"Set", "Next">>, p.sigOk)
  ELSE Outcome(m, FALSE, "proceed", 0, NoErr, <<>>, 0, {ContextKey},
               trace \o p.trace \o <<"Set", "Next">>, p.sigOk)

\* The tail of middlewareImpl, parse having returned p: unauthorized(401,
\* err.Error()), or c.Set("JWT_TOKEN", token) and c.Next().
respond(m, trace, p) ==
  IF p.panic THEN Panicked(m, trace \o p.trace, p.sigOk)
  ELSE IF p.err # NoErr
  THEN Rejected(unauthorized(m, StatusUnauthorized, p.err), trace \o p.trace, p.sigOk)
  ELSE Outcome(m, FALSE, "proceed", 0, NoErr, <<>>, 0, {ContextKey},
               trace \o p.trace \o <<"Set", "Next">>, p.sigOk)

\* middlewareImpl from the extracted token x on.
verifyExtracted(m, x, libNow, sysNow) ==
  IF x.panic THEN Panicked(m, x.trace, FALSE)
  ELSE IF x.err # NoErr
  THEN Rejected(unauthorized(m, StatusUnauthorized, x.err), x.trace, FALSE)
  ELSE respond(m, x.trace, parse(m, x.tokenStr, libNow, sysNow))

middlewareImpl(m, req, libNow, sysNow) ==
  verifyExtracted(m, extractToken(m, req), libNow, sysNow)

\* ------------------------------------------------------------- inputs
Region == <<"eu-west-2">>
UserPoolID == <<"eu-west-2_nUWNsylzT">>
Iss == <<"aws_issuer">>

EGood == <<0, 16, 0, 1>>
EBad == <<0, 16, BadDigit, 1>>
N1 == <<50, 12, 33, 7>>
N2 == <<50, 12, 33, 9>>
NBad == <<50, 12, 33, 7, 5>>

Kid1 == <<"k1">>
Kid2 == <<"k2">>
Kid3 == <<"k3">>
KidX == <<"kx">>

\* The key lists a JWKS body may carry: one good key; a rotated list in which
\* an older k1 precedes the current one, with two malformed entries.
KeysA == <<JWKKey(Kid1, EGood, N1)>>
KeysB == <<JWKKey(Kid1, EGood, N2), JWKKey(Kid1, EGood, N1),
           JWKKey(Kid2, EBad, N1), JWKKey(Kid3, EGood, NBad)>>

NoBody == [form |-> "none", keys |-> <<>>]
Fetches ==
  {[kind |-> "neterr", status |-> 0, body |-> NoBody],
   [kind |-> "resp", status |-> 200, body |-> [form |-> "malformed", keys |-> <<>>]],
   [kind |-> "resp", status |-> 200, body |-> [form |-> "object", keys |-> KeysA]],
   [kind |-> "resp", status |-> 200, body |-> [form |-> "object", keys |-> KeysB]],
   [kind |-> "resp", status |-> 404, body |-> [form |-> "object", keys |-> <<>>]],
   [kind |-> "resp", status |-> 500, body |-> [form |-> "malformed", keys |-> <<>>]]}

\* Struct literals, as the package's test builds its instance.
Literals ==
  {[ZeroMW EXCEPT !.UserPoolID = UserPoolID, !.Region = Region]}

\* What a caller sets on the exported fields before MiddlewareFunc.
XAuthToken == <<"X-Auth-Token">>
Overrides == {"clock", "lookup", "query", "bare", "callback"}
Override(m, o) ==
  CASE o = "clock" -> [m EXCEPT !.TimeFunc = "fixed"]
    [] o = "lookup" -> [m EXCEPT !.TokenLookup = HEADER \o <<":">> \o XAuthToken,
                                 !.Realm = <<"api">>]
    [] o = "query" -> [m EXCEPT !.TokenLookup = <<"query", ":", "token">>]
    [] o = "bare" -> [m EXCEPT !.TokenLookup = HEADER]
    [] o = "callback" -> [m EXCEPT !.Unauthorized = "custom"]

\* mw.TimeFunc(): the user's fixed clock runs ahead of the system's.
FixedClock == MaxTime + 1
TimeFuncNow(m, sysNow) == IF m.TimeFunc = "fixed" THEN FixedClock ELSE sysNow

IssGood == IssShouldBe(Region, UserPoolID)
IssOtherPool == IssShouldBe(Region, <<"eu-west-2_other">>)
IssForeign == <<"https://", "accounts.example.com">>
IssForeignMarked == <<"https://", "idp.example.com", "/", "cognito-idp">>

IssValues == {Absent, Num(7), Str(IssGood), Str(IssOtherPool), Str(IssForeign),
              Str(IssForeignMarked)}
TokenUseValues == {Absent, Num(1), Str(<<"id">>), Str(<<"access">>),
                   Str(<<"refresh">>)}
ExpValues == {Absent, Str(<<"tomorrow">>)} \cup {Num(k) : k \in 0..(MaxTime + 1)}
\* (iat, nbf): none, or one of them ahead of every clock reading.
IatNbfValues == {<<Absent, Absent>>, <<Num(MaxTime + 2), Absent>>,
                 <<Absent, Num(MaxTime + 2)>>}

Claims(iss, use, exp, iatnbf) ==
  [iss |-> iss, token_use |-> use, exp |-> exp, iat |-> iatnbf[1], nbf |-> iatnbf[2]]

Token(alg, kid, claims, signer) ==
  [kind |-> "jwt", alg |-> alg, kid |-> kid, claims |-> claims, signer |-> signer]

Garbage == [EmptyString EXCEPT !.kind = "garbage"]

\* Tokens that vary the claims under a usual header, tokens that carry an iat
\* or nbf, and tokens that vary the header over two usual claim sets.
ClaimTokens ==
  {Token(Str(<<"RS256">>), Str(Kid1), Claims(iss, use, exp, <<Absent, Absent>>), signer) :
     iss \in IssValues, use \in TokenUseValues, exp \in ExpValues,
     signer \in {"kp1", "nobody"}}
TimeTokens ==
  {Token(Str(<<"RS256">>), Str(Kid1), Claims(Str(iss), Str(<<"id">>), exp, tt), "kp1") :
     iss \in {IssGood, IssForeign}, exp \in {Absent, Num(MaxTime + 1)},
     tt \in IatNbfValues}
AlgValues ==
  {Absent, Num(256)} \cup
  {Str(<<a>>) : a \in {"RS256", "RS384", "RS512", "PS256", "HS256", "none", "XX"}}
KidValues == {Absent, Num(1), Str(Kid1), Str(Kid2), Str(Kid3), Str(KidX)}
HeaderTokens ==
  {Token(alg, kid, c, signer) :
     alg \in AlgValues, kid \in KidValues, signer \in {"kp1", "kp2", "nobody"},
     c \in {Claims(Str(IssGood), Str(<<"id">>), Num(MaxTime + 1), <<Absent, Absent>>),
            Claims(Str(IssForeign), Absent, Absent, <<Absent, Absent>>)}}

NoHeaders == [k \in {} |-> EmptyString]
WithHeader(name, value) == [k \in {name} |-> value]

Requests ==
  {[Header |-> NoHeaders]}
    \cup {[Header |-> WithHeader(AuthorizationHeader, v)] :
            v \in {EmptyString, Garbage} \cup ClaimTokens \cup TimeTokens
                    \cup HeaderTokens}
    \cup {[Header |-> WithHeader(XAuthToken, v)] :
            v \in {EmptyString, Garbage,
                   Token(Str(<<"RS256">>), Str(Kid1),
                         Claims(Str(IssGood), Str(<<"access">>), Num(MaxTime + 1),
                                <<Absent, Absent>>), "kp1")}}

\* -------------------------------------------------------------- state
VARIABLES
  phase,   \* "new", "failed", "constructed", "configured", "serving"
  ctor,    \* how the instance came to be: origin, the fetch, its error
  mw,      \* the AuthMiddleware instance
  now,     \* the system clock
  last,    \* the request handled last, with what came of it
  setup,   \* where a MiddlewareFunc call stands (SpecConc)
  reqs,    \* the requests in flight (SpecConc)
  wrote    \* whether the step just taken assigned a field of the instance

vars == <<phase, ctor, mw, now, last, setup, reqs, wrote>>

Idle == [pc |-> "idle"]
NoCtor == [origin |-> "none", fetch |-> [kind |-> "none", status |-> 0, body |-> NoBody],
           err |-> NoErr]

Init ==
  /\ phase = "new"
  /\ ctor = NoCtor
  /\ mw = ZeroMW
  /\ now = 1
  /\ last = Idle
  /\ setup = "idle"
  /\ reqs = [i \in 1..NReq |-> Idle]
  /\ wrote = FALSE

\* mw, err := CognitoJWTMiddleware(iss, userPoolID, region, ...), the fetch
\* ending as `fetch`.
Construct(fetch) ==
  /\ phase = "new"
  /\ LET r == CognitoJWTMiddleware(Iss, UserPoolID, Region, fetch)
     IN  /\ phase' = IF r.ok THEN "constructed" ELSE "failed"
         /\ mw' = r.mw
         /\ ctor' = [origin |-> "CognitoJWTMiddleware", fetch |-> fetch, err |-> r.err]
  /\ wrote' = FALSE
  /\ UNCHANGED <<now, last, setup, reqs>>

\* mw := &AuthMiddleware{...}
Literal(m) ==
  /\ phase = "new"
  /\ phase' = "constructed"
  /\ mw' = m
  /\ ctor' = [NoCtor EXCEPT !.origin = "literal"]
  /\ wrote' = FALSE
  /\ UNCHANGED <<now, last, setup, reqs>>

\* The caller sets exported fields, before the first MiddlewareFunc.
Configure(o) ==
  /\ phase = "constructed"
  /\ phase' = "configured"
  /\ mw' = Override(mw, o)
  /\ wrote' = FALSE
  /\ UNCHANGED <<ctor, now, last, setup, reqs>>

\* mw.MiddlewareFunc(): MiddlewareInit, then the handler is returned.
MiddlewareFunc ==
  /\ phase \in {"constructed", "configured", "serving"}
  /\ phase' = "serving"
  /\ mw' = MiddlewareInit(mw).mw
  /\ wrote' = MiddlewareInit(mw).wrote
  /\ UNCHANGED <<ctor, now, last, setup, reqs>>

Tick ==
  /\ now < MaxTime
  /\ last = Idle
  /\ now' = now + 1
  /\ wrote' = FALSE
  /\ UNCHANGED <<phase, ctor, mw, last, setup, reqs>>

\* The handler MiddlewareFunc returned runs on one request; the clock may
\* advance by dt between the library's reading and validateExpired's.
Handle(req, dt) ==
  /\ phase = "serving"
  /\ last = Idle
  /\ now + dt <= MaxTime
  /\ last' = [pc |-> "done", req |-> req, libNow |-> now,
               res |-> middlewareImpl(mw, req, now, now + dt)]
  /\ mw' = last'.res.mw
  /\ wrote' = last'.res.wrote
  /\ now' = now + dt
  /\ UNCHANGED <<phase, ctor, setup, reqs>>

Finish ==
  /\ last # Idle
  /\ last' = Idle
  /\ wrote' = FALSE
  /\ UNCHANGED <<phase, ctor, mw, now, setup, reqs>>

Next ==
  \/ \E f \in Fetches : Construct(f)
  \/ \E m \in Literals : Literal(m)
  \/ \E o \in Overrides : Configure(o)
  \/ MiddlewareFunc
  \/ Tick
  \/ \E req \in Requests, dt \in {0, 1} : Handle(req, dt)
  \/ Finish

Spec == Init /\ [][Next]_vars

\* ------------------------------------------- concurrent request handling
\* The handler runs on NReq requests at once, each a goroutine that reads the
\* instance at every step of middlewareImpl, while MiddlewareFunc is called
\* again on the same instance, MiddlewareInit visiting one field per step.
FetchB == [kind |-> "resp", status |-> 200, body |-> [form |-> "object", keys |-> KeysB]]

ConcStarts ==
  {[mw |-> CognitoJWTMiddleware(Iss, UserPoolID, Region, FetchB).mw,
    ctor |-> [origin |-> "CognitoJWTMiddleware", fetch |-> FetchB, err |-> NoErr]]}
    \cup {[mw |-> m, ctor |-> [NoCtor EXCEPT !.origin = "literal"]] : m \in Literals}

ConcRequests ==
  {[Header |-> NoHeaders]}
    \cup {[Header |-> WithHeader(AuthorizationHeader,
                                 Token(Str(<<"RS256">>), Str(kid),
                                       Claims(Str(IssGood), Str(<<"id">>),
                                              Num(MaxTime + 1), <<Absent, Absent>>),
                                       signer))] :
            kid \in {Kid1, Kid2}, signer \in {"kp1", "nobody"}}

InitConc ==
  /\ phase = "constructed"
  /\ \E c \in ConcStarts : mw = c.mw /\ ctor = c.ctor
  /\ now = 1
  /\ last = Idle
  /\ setup = "idle"
  /\ reqs = [i \in 1..NReq |-> Idle]
  /\ wrote = FALSE

\* mw.MiddlewareFunc() is entered.
CallMiddlewareFunc ==
  /\ setup = "idle"
  /\ setup' = InitOrder[1]
  /\ wrote' = FALSE
  /\ UNCHANGED <<phase, ctor, mw, now, last, reqs>>

\* MiddlewareInit's if statement on field number k.
InitStep(k) ==
  /\ setup = InitOrder[k]
  /\ mw' = InitField(InitOrder[k], mw).mw
  /\ wrote' = InitField(InitOrder[k], mw).wrote
  /\ setup' = IF k < Len(InitOrder) THEN InitOrder[k + 1] ELSE "return"
  /\ UNCHANGED <<phase, ctor, now, last, reqs>>

\* MiddlewareFunc returns the handler: requests may now come in.
ReturnHandler ==
  /\ setup = "return"
  /\ setup' = "idle"
  /\ phase' = "serving"
  /\ wrote' = FALSE
  /\ UNCHANGED <<ctor, mw, now, last, reqs>>

Arrive(i, req) ==
  /\ phase = "serving"
  /\ reqs[i] = Idle
  /\ reqs' = [reqs EXCEPT ![i] = [pc |-> "extract", req |-> req]]
  /\ wrote' = FALSE
  /\ UNCHANGED <<phase, ctor, mw, now, last, setup>>

\* What middlewareImpl goes on with after extracting x: parse, or the error
\* (or the panic) of the extraction.
AfterExtract(req, x) ==
  IF x.panic \/ x.err # NoErr
  THEN [pc |-> "respond", req |-> req, trace |-> x.trace,
        p |-> ParseResult(x.panic, x.err, <<>>, FALSE)]
  ELSE [pc |-> "parse", req |-> req, trace |-> x.trace, tokenStr |-> x.tokenStr]

\* The switch on mw.TokenLookup and jwtFromHeader.
Extract(i) ==
  /\ reqs[i].pc = "extract"
  /\ reqs' = [reqs EXCEPT ![i] = AfterExtract(reqs[i].req, extractToken(mw, reqs[i].req))]
  /\ wrote' = FALSE
  /\ UNCHANGED <<phase, ctor, mw, now, last, setup>>

\* mw.parse(tokenStr)
Parse(i) ==
  /\ reqs[i].pc = "parse"
  /\ reqs' = [reqs EXCEPT ![i] =
                [pc |-> "respond", req |-> reqs[i].req, trace |-> reqs[i].trace,
                 p |-> parse(mw, reqs[i].tokenStr, now, now)]]
  /\ wrote' = FALSE
  /\ UNCHANGED <<phase, ctor, mw, now, last, setup>>

\* mw.unauthorized(c, 401, err.Error()), or c.Set and c.Next.
Respond(i) ==
  /\ reqs[i].pc = "respond"
  /\ reqs' = [reqs EXCEPT ![i] =
                [pc |-> "done", req |-> reqs[i].req,
                 res |-> respond(mw, reqs[i].trace, reqs[i].p)]]
  /\ mw' = reqs'[i].res.mw
  /\ wrote' = reqs'[i].res.wrote
  /\ UNCHANGED <<phase, ctor, now, last, setup>>

Leave(i) ==
  /\ reqs[i].pc = "done"
  /\ reqs' = [reqs EXCEPT ![i] = Idle]
  /\ wrote' = FALSE
  /\ UNCHANGED <<phase, ctor, mw, now, last, setup>>

NextConc ==
  \/ Tick
  \/ CallMiddlewareFunc
  \/ \E k \in 1..Len(InitOrder) : InitStep(k)
  \/ ReturnHandler
  \/ \E i \in 1..NReq, req \in ConcRequests : Arrive(i, req)
  \/ \E i \in 1..NReq : Extract(i)
  \/ \E i \in 1..NReq : Parse(i)
  \/ \E i \in 1..NReq : Respond(i)
  \/ \E i \in 1..NReq : Leave(i)

SpecConc == InitConc /\ [][NextConc]_vars

\* ------------------------------------------------------------- claims
Done == last.pc = "done"

InTrace(trace, e) == \E i \in 1..Len(trace) : trace[i] = e
Count(trace, e) == Cardinality({i \in 1..Len(trace) : trace[i] = e})
Before(trace, a, b) ==
  \E i, j \in 1..Len(trace) : i < j /\ trace[i] = a /\ trace[j] = b

\* The instance looks the token up in header `name`.
LooksUp(name) == mw.TokenLookup = <<"header", ":">> \o name
HeaderNames == {AuthorizationHeader, XAuthToken}

\* The handled request has no value in the header the instance reads.
HeaderMissing ==
  \E name \in HeaderNames :
     /\ LooksUp(name)
     /\ (name \notin DOMAIN last.req.Header \/ last.req.Header[name] = EmptyString)

\* The token the handled request carries in the header the instance reads.
Presented ==
  last.req.Header[CHOOSE name \in HeaderNames : LooksUp(name)]
HasToken ==
  Done /\ \E name \in HeaderNames :
            /\ LooksUp(name)
            /\ name \in DOMAIN last.req.Header
            /\ last.req.Header[name] # EmptyString
HasJWT == HasToken /\ Presented.kind = "jwt"

\* C1: a request whose configured token header is absent or empty is rejected
\* with 401 and the message "auth header empty", exactly once, and neither
\* c.Next nor parse is ever called for it.
C1_MissingHeaderRejected ==
  (Done /\ HeaderMissing) =>
     /\ last.res.outcome = "reject"
     /\ last.res.code = 401
     /\ last.res.message = <<"auth header empty">>
     /\ Count(last.res.trace, "Unauthorized") = 1
     /\ ~InTrace(last.res.trace, "Next")
     /\ ~InTrace(last.res.trace, "parse")

\* C1 happens: a request with no header at all has been rejected.
C1_Witness ==
  /\ Done /\ HeaderMissing
  /\ last.req.Header = NoHeaders
  /\ last.res.outcome = "reject"

\* C2: a token whose exp lies before the injected clock (mw.TimeFunc) is
\* rejected, whatever its signature: it is never let through to c.Next.
C2_ExpiredRejected ==
  (HasJWT /\ Presented.claims.exp.t = "number"
     /\ Presented.claims.exp.n < TimeFuncNow(mw, last.libNow))
    => last.res.outcome # "proceed"

\* C3: with a header lookup configured, handling a request ends in proceed or
\* in a rejection with 401, never in a panic.
C3_NoUnhandledFault ==
  (Done /\ \E name \in HeaderNames : LooksUp(name)) =>
     /\ last.res.outcome \in {"proceed", "reject"}
     /\ last.res.outcome = "reject" => last.res.code = 401

\* C4: a token whose kid is no key of the key set is rejected and convertKey is
\* never called for it.
C4_UnknownKeyNotConverted ==
  (HasJWT /\ Presented.kid.t = "string" /\ Presented.kid.s \notin DOMAIN mw.JWK) =>
     /\ last.res.outcome = "reject"
     /\ ~InTrace(last.res.trace, "convertKey")

\* C5: CognitoJWTMiddleware returns an instance only after a fetch that ended
\* in a 2xx response with a well-formed JSON body, and returns an error and no
\* instance otherwise.
FetchSucceeded ==
  /\ ctor.fetch.kind = "resp"
  /\ ctor.fetch.status \in 200..299
  /\ ctor.fetch.body.form = "object"
C5_AtomicConstruction ==
  ctor.origin = "CognitoJWTMiddleware" =>
     /\ phase # "failed" => FetchSucceeded
     /\ phase = "failed" => (ctor.err # NoErr /\ mw = ZeroMW)

\* The library's own time checks pass at its reading of the clock.
LapsedAt(v, t) == v.t = "number" /\ v.n # 0 /\ v.n < t
AheadOf(v, t) == v.t = "number" /\ v.n # 0 /\ v.n > t
LibraryTimesPass ==
  /\ ~LapsedAt(Presented.claims.exp, last.libNow)
  /\ ~AheadOf(Presented.claims.iat, last.libNow)
  /\ ~AheadOf(Presented.claims.nbf, last.libNow)

ForeignIssuer ==
  /\ HasJWT
  /\ Presented.claims.iss.t = "string"
  /\ \A i \in 1..Len(Presented.claims.iss.s) : Presented.claims.iss.s[i] # "cognito-idp"

\* C6 as stated: a token of an issuer without "cognito-idp" whose signature
\* verifies is accepted, whatever its token_use and exp (here for the tokens
\* that carry no iat and no nbf).
C6_ForeignAcceptedWhateverExp ==
  (ForeignIssuer /\ last.res.sigOk
     /\ Presented.claims.iat = Absent /\ Presented.claims.nbf = Absent)
    => last.res.outcome = "proceed"

\* C6 as amended: for a token of an issuer without "cognito-idp",
\* validateAWSJwtClaims is not called, and the token is accepted whenever its
\* signature verifies and the library's own checks of exp, iat and nbf pass,
\* whatever its token_use and also when exp is missing, no number or 0.
C6_ForeignAcceptedByLibrary ==
  ForeignIssuer =>
     /\ ~InTrace(last.res.trace, "validateAWSJwtClaims")
     /\ (last.res.sigOk /\ LibraryTimesPass) => last.res.outcome = "proceed"

\* C6 happens: a foreign token with token_use "refresh" and a textual exp has
\* been accepted.
C6_Witness ==
  /\ ForeignIssuer /\ last.res.sigOk
  /\ Presented.claims.token_use = Str(<<"refresh">>)
  /\ Presented.claims.exp = Str(<<"tomorrow">>)
  /\ last.res.outcome = "proceed"

\* C7: for a request with a non-empty token header, c.Next is called exactly
\* when parse returned without error, after c.Set("JWT_TOKEN", token); on an
\* error of parse, unauthorized(401, err.Error()) is called once and c.Next
\* never; no request sees both, and no rejection carries another code.
C7_BinaryGate ==
  HasToken =>
     /\ InTrace(last.res.trace, "Next") <=>
          (~parse(mw, Presented, last.libNow, now).panic
             /\ parse(mw, Presented, last.libNow, now).err = NoErr)
     /\ InTrace(last.res.trace, "Next") =>
          /\ Count(last.res.trace, "Next") = 1
          /\ Before(last.res.trace, "Set", "Next")
          /\ last.res.ctx = {<<"JWT_TOKEN">>}
          /\ last.res.outcome = "proceed"
     /\ parse(mw, Presented, last.libNow, now).err # NoErr =>
          /\ last.res.outcome = "reject"
          /\ Count(last.res.trace, "Unauthorized") = 1
          /\ last.res.code = 401
          /\ last.res.message = parse(mw, Presented, last.libNow, now).err
     /\ ~(InTrace(last.res.trace, "Next") /\ InTrace(last.res.trace, "Unauthorized"))
     /\ InTrace(last.res.trace, "Unauthorized") => last.res.code = 401

\* C7 happens: a token has been accepted, c.Set before c.Next.
C7_Witness ==
  /\ HasJWT
  /\ last.res.outcome = "proceed"
  /\ last.res.ctx = {<<"JWT_TOKEN">>}
  /\ Before(last.res.trace, "Set", "Next")

\* C8: a token whose alg is not RS256 (RS384 and RS512 included) is rejected
\* for its algorithm, before any key lookup or signature verification: so no
\* such token is ever let through to c.Next.
C8_OnlyRS256 ==
  (HasJWT /\ Presented.alg # Str(<<"RS256">>)) => last.res.outcome # "proceed"

\* C9: once MiddlewareFunc has returned, no step (of a request being handled, or
\* of a further MiddlewareFunc call) assigns a field of the instance: every
\* field keeps its value.
C9_NoWriteAfterInit ==
  [][phase = "serving" => (mw' = mw /\ ~wrote')]_vars

\* C9 happens: requests accepted and rejected side by side while MiddlewareFunc is being
\* called again.
C9_Witness ==
  /\ phase = "serving"
  /\ setup = "Realm"
  /\ \E i, j \in 1..NReq :
        /\ reqs[i].pc = "done" /\ reqs[i].res.outcome = "reject"
        /\ reqs[j].pc = "respond" /\ reqs[j].p.err = NoErr /\ ~reqs[j].p.panic

\* C10: where validateExpired decides (issuer and token_use having passed), exp
\* passes exactly when it is a number greater than the current time, and every
\* failing exp (missing, no number, past or equal) yields one and the same
\* error.
ReachedExpiry ==
  /\ HasJWT
  /\ InTrace(last.res.trace, "validateAWSJwtClaims")
  /\ Presented.claims.iss = Str(IssShouldBe(mw.Region, mw.UserPoolID))
  /\ Presented.claims.token_use \in {Str(<<"id">>), Str(<<"access">>)}
C10_OneExpiryError ==
  ReachedExpiry =>
     /\ last.res.outcome = "proceed" <=>
          (Presented.claims.exp.t = "number" /\ Presented.claims.exp.n > now)
     /\ last.res.outcome # "proceed" =>
          \A e \in ExpValues :
             validateExpired([Presented.claims EXCEPT !.exp = e], now)
               \in {NoErr, last.res.message}

====
